---------------------------- MODULE Spec2Model ----------------------------
(***************************************************************************)
(* Model of the config-guard extractor of src/src/index.js:                *)
(*   parseConfigGuardFile / handleConfigKey  (the per-file scanner),       *)
(*   collectRegistryPacks / collectLocalConfigGuardPacks (the directory    *)
(*   scans) and summarizeConfigGuardLite (deduplication, sort, totals).    *)
(*                                                                         *)
(* A JavaScript string is a sequence of tokens.  A token is either one     *)
(* punctuation character (" ", "-", ":", "#", "@") or a word that holds    *)
(* none of them; every string has one tokenisation, so that equality of    *)
(* strings is equality of sequences.  The suffix "-item" is one token.     *)
(***************************************************************************)
EXTENDS Integers, Sequences, FiniteSets, TLC

VARIABLES
    pc,               \* where parseConfigGuardFile stands: "open", "scan", "done"
    readable,         \* whether fs.readFileSync succeeds on the file
    text,             \* the file's content as the marker test sees it
    contexts,         \* the context stack, bottom first
    rotationEntries,  \* the rotation objects, in creation order
    state,            \* packId, packVersion, namespace, environment, missingEnv
    envCount,
    secretsCount,
    lineNo,           \* number of lines the for-loop has consumed
    summary,          \* the value parseConfigGuardFile returns
    history,          \* the lines consumed so far (kept by the specifications that record them)
    fs,               \* the file system: the kind of entry at each path
    lpc,              \* where summarizeConfigGuardLite stands
    stack,            \* collectRegistryPacks: the directories still to read
    files,            \* the candidate files of the loop in progress
    cursor,           \* number of candidate files the loop in progress has consumed
    summaries,        \* summarizeConfigGuardLite: the summaries kept
    seen,             \* summarizeConfigGuardLite: the keys of the summaries kept
    qualifying,       \* every summary parseConfigGuardFile returned, in scan order
    scanOrder,        \* the summaries kept, as they stood before the sort
    report            \* the value summarizeConfigGuardLite returns

parserVars == <<pc, readable, text, contexts, rotationEntries, state, envCount,
                secretsCount, lineNo, summary, history>>

liteVars == <<fs, lpc, stack, files, cursor, summaries, seen, qualifying, scanOrder,
              report>>

vars == <<parserVars, liteVars>>

---------------------------------------------------------------------------
(* Bounds of the model *)

MaxLines == 3
MaxIndent == 2
MaxText == 4
MaxHistory == 4
MaxDepth == 2
MaxCount == 1

---------------------------------------------------------------------------
(* JavaScript values *)

Null == [t |-> "null", n |-> 0]
NaN == [t |-> "nan", n |-> 0]
Num(k) == [t |-> "num", n |-> k]

Digits == ("0" :> 0) @@ ("1" :> 1) @@ ("2" :> 2)

\* Number(value) of a trimmed string: '' is 0, a numeral its value, else NaN
NumberOf(value) ==
    IF value = <<>> THEN Num(0)
    ELSE IF Len(value) = 1 /\ value[1] \in DOMAIN Digits THEN Num(Digits[value[1]])
    ELSE NaN

IsFinite(v) == v.t = "num"

\* a string-or-null field: null is [set |-> FALSE]
Unset == [set |-> FALSE, v |-> <<>>]
Str(s) == [set |-> TRUE, v |-> s]

\* !x for a string-or-null x: null and '' are falsy
Falsy(x) == ~x.set \/ x.v = <<>>

---------------------------------------------------------------------------
(* String operations on token sequences *)

IsSpace(t) == t = " "

RECURSIVE LeadingSpaces(_)
LeadingSpaces(s) ==
    IF s # <<>> /\ IsSpace(Head(s)) THEN 1 + LeadingSpaces(Tail(s)) ELSE 0

RECURSIVE TrailingSpaces(_)
TrailingSpaces(s) ==
    IF s # <<>> /\ IsSpace(s[Len(s)])
    THEN 1 + TrailingSpaces(SubSeq(s, 1, Len(s) - 1)) ELSE 0

Trim(s) ==
    IF LeadingSpaces(s) = Len(s) THEN <<>>
    ELSE SubSeq(s, LeadingSpaces(s) + 1, Len(s) - TrailingSpaces(s))

StartsWith(s, p) == Len(s) >= Len(p) /\ SubSeq(s, 1, Len(p)) = p
EndsWith(s, p) == Len(s) >= Len(p) /\ SubSeq(s, Len(s) - Len(p) + 1, Len(s)) = p

\* indexOf, 1-based; 0 stands for JavaScript's -1
IndexOf(s, t) ==
    IF \E i \in 1..Len(s) : s[i] = t
    THEN CHOOSE i \in 1..Len(s) : s[i] = t /\ \A j \in 1..(i - 1) : s[j] # t
    ELSE 0

\* /false/i.test(value)
FalseWords == {"false", "FALSE"}
MatchesFalse(value) == \E i \in 1..Len(value) : value[i] \in FalseWords

---------------------------------------------------------------------------
(* The marker test.  The text is a sequence over: "M", one occurrence of   *)
(* the literal config_guard_spec (it starts and ends with a word           *)
(* character); "w", a word character (letter, digit, underscore) outside   *)
(* any occurrence; "s", any other character.                               *)

TextSymbols == {"M", "w", "s"}
IsWordSym(c) == c \in {"M", "w"}

\* /\bconfig_guard_spec\b/.test(text)
MarkerTestNoBoundary(t) == \E i \in 1..Len(t) : t[i] = "M"

MarkerTest(t) ==
    \E i \in 1..Len(t) :
        /\ t[i] = "M"
        /\ (i = 1 \/ ~IsWordSym(t[i - 1]))
        /\ (i = Len(t) \/ ~IsWordSym(t[i + 1]))

---------------------------------------------------------------------------
(* Context frames *)

NoRotation == [kind |-> "none", idx |-> 0, last |-> Null, max |-> Null]
RotationRef(i) == [kind |-> "ref", idx |-> i, last |-> Null, max |-> Null]

Frame(key, indent, type, rotation) ==
    [key |-> key, indent |-> indent, type |-> type, rotation |-> rotation]

\* while (contexts.length && indent <= top.indent) contexts.pop()
RECURSIVE PopContextsStrict(_, _)
PopContextsStrict(ctxs, indent) ==
    IF ctxs # <<>> /\ indent < ctxs[Len(ctxs)].indent
    THEN PopContextsStrict(SubSeq(ctxs, 1, Len(ctxs) - 1), indent)
    ELSE ctxs

RECURSIVE PopContexts(_, _)
PopContexts(ctxs, indent) ==
    IF ctxs # <<>> /\ indent <= ctxs[Len(ctxs)].indent
    THEN PopContexts(SubSeq(ctxs, 1, Len(ctxs) - 1), indent)
    ELSE ctxs

InitState ==
    [packId |-> Unset, packVersion |-> Unset, namespace |-> Unset,
     environment |-> Unset, missingEnv |-> 0]

---------------------------------------------------------------------------
(* handleConfigKey *)

\* the guard !state.packId (and its three siblings)
IdentityWritableAlways(field) == TRUE

IdentityWritable(field) == Falsy(field)

\* current.rotation = current.rotation || {last: null, max: null};
\* current.rotation[which] = Number(value)
SetRotationField(p, current, which, value) ==
    LET rot == p.contexts[current].rotation
        n == NumberOf(value)
    IN  IF rot.kind = "ref"
        THEN [p EXCEPT !.rotationEntries[rot.idx][which] = n]
        ELSE [p EXCEPT !.contexts[current].rotation =
                          [[rot EXCEPT !.kind = "own"] EXCEPT ![which] = n]]

\* the acting frame is a rotation item
ActsOnRotation(ctxs, current) ==
    /\ current # 0
    /\ \/ ctxs[current].key = <<"rotations", "-item">>
       \/ ctxs[current].type = "rotation"

\* the acting frame is an env item
ActsOnEnv(ctxs, current) ==
    /\ current # 0
    /\ \/ ctxs[current].key = <<"required_env", "-item">>
       \/ ctxs[current].type = "env"

OpenKeys(p) == {p.contexts[i].key : i \in 1..Len(p.contexts)}

\* the seven if-statements of handleConfigKey, in order; p is
\* [state, contexts, rotationEntries]
RoutePackId(p, key, value) ==
    IF key = <<"id">> /\ <<"pack">> \in OpenKeys(p) /\ IdentityWritable(p.state.packId)
    THEN [p EXCEPT !.state.packId = Str(value)] ELSE p

RoutePackVersion(p, key, value) ==
    IF key = <<"version">> /\ <<"pack">> \in OpenKeys(p)
       /\ IdentityWritable(p.state.packVersion)
    THEN [p EXCEPT !.state.packVersion = Str(value)] ELSE p

RouteNamespace(p, key, value) ==
    IF key = <<"namespace">> /\ <<"spec">> \in OpenKeys(p)
       /\ IdentityWritable(p.state.namespace)
    THEN [p EXCEPT !.state.namespace = Str(value)] ELSE p

RouteEnvironment(p, key, value) ==
    IF key = <<"environment">> /\ <<"spec">> \in OpenKeys(p)
       /\ IdentityWritable(p.state.environment)
    THEN [p EXCEPT !.state.environment = Str(value)] ELSE p

RoutePresent(p, key, value, current) ==
    IF ActsOnEnv(p.contexts, current) /\ key = <<"present">> /\ MatchesFalse(value)
    THEN [p EXCEPT !.state.missingEnv = @ + 1] ELSE p

RouteLastRotated(p, key, value, current) ==
    IF ActsOnRotation(p.contexts, current) /\ key = <<"last_rotated_days">>
    THEN SetRotationField(p, current, "last", value) ELSE p

RouteMaxDays(p, key, value, current) ==
    IF ActsOnRotation(p.contexts, current) /\ key = <<"max_days">>
    THEN SetRotationField(p, current, "max", value) ELSE p

\* forcedCtx is the index of the forced frame in p.contexts, 0 when the argument
\* is omitted
CurrentCtx(p, forcedCtx) == IF forcedCtx # 0 THEN forcedCtx ELSE Len(p.contexts)

handleConfigKey(p, key, value, forcedCtx) ==
    RouteMaxDays(
        RouteLastRotated(
            RoutePresent(
                RouteEnvironment(
                    RouteNamespace(
                        RoutePackVersion(RoutePackId(p, key, value), key, value),
                        key, value),
                    key, value),
                key, value, CurrentCtx(p, forcedCtx)),
            key, value, CurrentCtx(p, forcedCtx)),
        key, value, CurrentCtx(p, forcedCtx))

---------------------------------------------------------------------------
(* One iteration of the for-loop of parseConfigGuardFile *)

\* q is [state, contexts, rotationEntries, envCount, secretsCount]
Route(q, key, value, forcedCtx) ==
    LET r == handleConfigKey([state |-> q.state, contexts |-> q.contexts,
                              rotationEntries |-> q.rotationEntries],
                             key, value, forcedCtx)
    IN  [q EXCEPT !.state = r.state, !.contexts = r.contexts,
                  !.rotationEntries = r.rotationEntries]

\* the branch of a line that starts with '- '
ListItem(q, line, indent) ==
    LET hasParent == q.contexts # <<>>
        parent == IF hasParent THEN q.contexts[Len(q.contexts)].key ELSE <<>>
        content == Trim(SubSeq(line, 3, Len(line)))
        key == IF hasParent /\ parent # <<>> THEN parent \o <<"-item">>
               ELSE <<"list", "-item">>
        isEnv == hasParent /\ parent = <<"required_env">>
        isRot == hasParent /\ ~isEnv /\ parent = <<"rotations">>
        ctx == Frame(key, indent,
                     IF isEnv THEN "env" ELSE IF isRot THEN "rotation" ELSE "none",
                     IF isRot THEN RotationRef(Len(q.rotationEntries) + 1) ELSE NoRotation)
        q1 == [q EXCEPT
                 !.envCount = IF isEnv THEN @ + 1 ELSE @,
                 !.secretsCount = IF isRot THEN @ + 1 ELSE @,
                 !.rotationEntries = IF isRot THEN Append(@, [last |-> Null, max |-> Null])
                                     ELSE @,
                 !.contexts = Append(@, ctx)]
        idx == IndexOf(content, ":")
    IN  IF content # <<>> /\ idx # 0
        THEN Route(q1, Trim(SubSeq(content, 1, idx - 1)),
                   Trim(SubSeq(content, idx + 1, Len(content))), Len(q1.contexts))
        ELSE q1

ProcessLine(q0, rawLine) ==
    LET indent == LeadingSpaces(rawLine)
        line == Trim(rawLine)
        q == [q0 EXCEPT !.contexts = PopContexts(@, indent)]
        idx == IndexOf(line, ":")
    IN  IF line = <<>> \/ StartsWith(line, <<"#">>) THEN q0
        ELSE IF EndsWith(line, <<":">>) /\ ~StartsWith(line, <<"-", " ">>)
        THEN [q EXCEPT !.contexts =
                 Append(@, Frame(Trim(SubSeq(line, 1, Len(line) - 1)), indent,
                                 "none", NoRotation))]
        ELSE IF StartsWith(line, <<"-", " ">>) THEN ListItem(q, line, indent)
        ELSE IF idx = 0 THEN q
        ELSE Route(q, Trim(SubSeq(line, 1, idx - 1)),
                   Trim(SubSeq(line, idx + 1, Len(line))), 0)

\* entry => Number.isFinite(entry.last) && Number.isFinite(entry.max) && entry.last > entry.max
IsStaleOrEqual(entry) ==
    IsFinite(entry.last) /\ IsFinite(entry.max) /\ entry.last.n >= entry.max.n

IsStale(entry) ==
    IsFinite(entry.last) /\ IsFinite(entry.max) /\ entry.last.n > entry.max.n

StaleSecrets(entries) == Cardinality({i \in 1..Len(entries) : IsStale(entries[i])})

\* path.basename(filePath).replace(/\.(ya?ml)$/i, '')
FileBaseName == <<"file">>
DefaultVersion == <<"0.0.0">>

NoSummary ==
    [some |-> FALSE, id |-> <<>>, version |-> <<>>, namespace |-> Unset,
     environment |-> Unset, envCount |-> 0, missingEnv |-> 0, secretsCount |-> 0,
     staleSecrets |-> 0]

MakeSummary(st, entries, ec, sc) ==
    [some |-> TRUE,
     id |-> IF Falsy(st.packId) THEN FileBaseName ELSE st.packId.v,
     version |-> IF Falsy(st.packVersion) THEN DefaultVersion ELSE st.packVersion.v,
     namespace |-> st.namespace,
     environment |-> st.environment,
     envCount |-> ec,
     missingEnv |-> st.missingEnv,
     secretsCount |-> sc,
     staleSecrets |-> StaleSecrets(entries)]

---------------------------------------------------------------------------
(* The lines a file may hold *)

Spaces(n) == [i \in 1..n |-> " "]

MapKeyWords == {<<"pack">>, <<"spec">>, <<"required_env">>, <<"rotations">>,
                <<"required_env", "-item">>, <<"rotations", "-item">>}

KeyValues ==
    {<<<<"id">>, <<"a">>>>, <<<<"id">>, <<"b">>>>, <<<<"version">>, <<"a">>>>,
     <<<<"namespace">>, <<"a">>>>, <<<<"environment">>, <<"a">>>>,
     <<<<"present">>, <<"false">>>>, <<<<"present">>, <<"true">>>>,
     <<<<"last_rotated_days">>, <<"2">>>>,
     <<<<"max_days">>, <<"1">>>>, <<<<"max_days">>, <<"2">>>>}

\* the key: value pairs written inline on a list-item line
ItemKeyValues ==
    {<<<<"id">>, <<"a">>>>, <<<<"present">>, <<"FALSE">>>>,
     <<<<"last_rotated_days">>, <<"2">>>>, <<<<"max_days">>, <<"1">>>>}

KV(k, v) == k \o <<":", " ">> \o v

\* inline keys with an empty value: "- id:", "- max_days:" ...
InlineEmptyKeys == {<<"id">>, <<"version">>, <<"last_rotated_days">>, <<"max_days">>}

Bodies ==
    {k \o <<":">> : k \in MapKeyWords}
    \cup {KV(kv[1], kv[2]) : kv \in KeyValues}
    \cup {<<"-", " ">> \o KV(kv[1], kv[2]) : kv \in ItemKeyValues}
    \cup {<<"-", " ">> \o k \o <<":">> : k \in InlineEmptyKeys}
    \cup {<<"-", " ", "x">>, <<"x">>, <<"#", "x">>, <<>>}

Lines == {Spaces(n) \o b : n \in 0..MaxIndent, b \in Bodies}

---------------------------------------------------------------------------
(* The file system.  A name is <<stem, extension>>; a path is a sequence   *)
(* of names.  An entry is "absent", a regular "file", a readable "dir", an *)
(* unreadable directory "udir" or something "other" (a link, a socket).    *)

PackYaml == <<"pack", ".yaml">>
SubDir == <<"d", "">>
RegistryRoot == <<<<"registry", "">>>>
LocalRoot == <<<<"config-guard", "">>>>

\* the directory k levels below the registry root
RECURSIVE Spine(_)
Spine(k) == IF k = 0 THEN RegistryRoot ELSE Append(Spine(k - 1), SubDir)

RegistryPaths ==
    {Spine(k) : k \in 0..MaxDepth}
    \cup {Append(Spine(k), PackYaml) : k \in 0..MaxDepth}
    \cup {RegistryRoot \o <<<<"x", ".yaml">>>>,
          RegistryRoot \o <<<<"e", "">>>>,
          RegistryRoot \o <<<<"e", "">>, PackYaml>>}

LocalPaths ==
    {LocalRoot, LocalRoot \o <<<<"p", ".yaml">>>>, LocalRoot \o <<<<"q", ".yaml">>>>,
     LocalRoot \o <<<<"notes", ".txt">>>>}

Paths == RegistryPaths \cup LocalPaths

Kinds == {"absent", "file", "dir", "udir", "other"}

ParentOf(p) == SubSeq(p, 1, Len(p) - 1)
NameOf(p) == p[Len(p)]
IsDirectory(f, p) == f[p] \in {"dir", "udir"}
IsFile(f, p) == f[p] = "file"

\* the kinds an entry of a given name takes in the model
KindsOf(p) ==
    IF Len(p) = 1 THEN {"absent", "file", "dir", "udir"}
    ELSE IF p = Append(RegistryRoot, PackYaml) THEN {"absent", "file", "dir", "other"}
    ELSE IF NameOf(p)[2] # "" THEN {"absent", "file"}
    ELSE {"absent", "dir", "udir"}

\* the trees over a set of paths: an entry exists only inside a directory
RECURSIVE Trees(_, _)
Trees(partial, todo) ==
    IF todo = {} THEN partial
    ELSE LET p == CHOOSE q \in todo : \A r \in todo : Len(q) <= Len(r)
             allowed(f) == IF Len(p) = 1 \/ IsDirectory(f, ParentOf(p)) THEN KindsOf(p)
                           ELSE {"absent"}
         IN  Trees(UNION {{f @@ (p :> k) : k \in allowed(f)} : f \in partial}, todo \ {p})

RegistryTrees == Trees({<<>>}, RegistryPaths)
LocalTrees == Trees({<<>>}, LocalPaths)

\* fs.existsSync(p)
ExistsSync(f, p) == f[p] # "absent"

\* fs.readdirSync(dir) succeeds
ReaddirSucceeds(f, dir) == f[dir] = "dir"

\* the listings fs.readdirSync(dir, {withFileTypes: true}) may return: the
\* entries of dir in any order
Listings(f, dir) ==
    LET present == {p \in Paths : Len(p) = Len(dir) + 1 /\ ParentOf(p) = dir
                                  /\ f[p] # "absent"}
        n == Cardinality(present)
    IN  {l \in [1..n -> present] : \A i, j \in 1..n : l[i] = l[j] => i = j}

\* entry.isFile() && entry.name === 'pack.yaml'
IsPackFileByNameOnly(f, p) == NameOf(p) = PackYaml

IsPackFile(f, p) == IsFile(f, p) /\ NameOf(p) = PackYaml

\* entry.isFile() && entry.name.endsWith('.yaml')
IsLocalCandidate(f, p) == IsFile(f, p) /\ NameOf(p)[2] = ".yaml"

\* the for-loop over the entries of one directory: w is [stack, files]
RECURSIVE VisitEntries(_, _, _)
VisitEntries(f, entries, w) ==
    IF entries = <<>> THEN w
    ELSE LET full == Head(entries)
             w1 == IF IsDirectory(f, full) THEN [w EXCEPT !.stack = Append(@, full)]
                   ELSE IF IsPackFile(f, full) THEN [w EXCEPT !.files = Append(@, full)]
                   ELSE w
         IN  VisitEntries(f, Tail(entries), w1)

---------------------------------------------------------------------------
(* The summaries parseConfigGuardFile hands to summarizeConfigGuardLite    *)

IdStrings == {<<"a">>, <<"a", "@", "b">>}
VersionStrings == {<<"c">>, <<"b", "@", "c">>}

\* file tells the summaries of two files apart, as object identity does
PackSummary(file, id, version, missingEnv, staleSecrets) ==
    [file |-> file, id |-> id, version |-> version, missingEnv |-> missingEnv,
     staleSecrets |-> staleSecrets]

SummariesOf(file) ==
    {PackSummary(file, i, v, m, st) :
        i \in IdStrings, v \in VersionStrings, m \in 0..MaxCount, st \in 0..MaxCount}

\* `${summary.id}@${summary.version}`
KeyOf(s) == s.id \o <<"@">> \o s.version

Severity(s) == s.missingEnv + s.staleSecrets

\* summaries.sort((a, b) => severity(b) - severity(a)): a stable sort
RECURSIVE InsertAscending(_, _)
InsertAscending(sorted, x) ==
    IF sorted = <<>> THEN <<x>>
    ELSE IF Severity(Head(sorted)) <= Severity(x)
    THEN <<Head(sorted)>> \o InsertAscending(Tail(sorted), x)
    ELSE <<x>> \o sorted

RECURSIVE InsertDescending(_, _)
InsertDescending(sorted, x) ==
    IF sorted = <<>> THEN <<x>>
    ELSE IF Severity(Head(sorted)) >= Severity(x)
    THEN <<Head(sorted)>> \o InsertDescending(Tail(sorted), x)
    ELSE <<x>> \o sorted

RECURSIVE SortAscending(_)
SortAscending(seq) ==
    IF seq = <<>> THEN <<>>
    ELSE InsertAscending(SortAscending(SubSeq(seq, 1, Len(seq) - 1)), seq[Len(seq)])

RECURSIVE SortBySeverity(_)
SortBySeverity(seq) ==
    IF seq = <<>> THEN <<>>
    ELSE InsertDescending(SortBySeverity(SubSeq(seq, 1, Len(seq) - 1)), seq[Len(seq)])

\* summaries.reduce(...)
RECURSIVE Totals(_, _)
Totals(seq, acc) ==
    IF seq = <<>> THEN acc
    ELSE Totals(Tail(seq), [missingEnv |-> acc.missingEnv + Head(seq).missingEnv,
                            staleSecrets |-> acc.staleSecrets + Head(seq).staleSecrets])

NoReport == [some |-> FALSE, totalPacks |-> 0, missingEnv |-> 0, staleSecrets |-> 0,
             packs |-> <<>>]

MakeReport(sorted) ==
    LET totals == Totals(sorted, [missingEnv |-> 0, staleSecrets |-> 0])
    IN  [some |-> TRUE, totalPacks |-> Len(sorted), missingEnv |-> totals.missingEnv,
         staleSecrets |-> totals.staleSecrets, packs |-> sorted]

\* the scan variables while only one file is parsed
LiteIdle ==
    /\ fs = [p \in Paths |-> "absent"]
    /\ lpc = "idle"
    /\ stack = <<>>
    /\ files = <<>>
    /\ cursor = 0
    /\ summaries = <<>>
    /\ seen = {}
    /\ qualifying = <<>>
    /\ scanOrder = <<>>
    /\ report = NoReport

\* the parser variables while directories are scanned
ParserIdle ==
    /\ pc = "idle"
    /\ readable = TRUE
    /\ text = <<>>
    /\ contexts = <<>>
    /\ rotationEntries = <<>>
    /\ state = InitState
    /\ envCount = 0
    /\ secretsCount = 0
    /\ lineNo = 0
    /\ summary = NoSummary
    /\ history = <<>>

---------------------------------------------------------------------------
(* parseConfigGuardFile as a state machine *)

InitParser(texts) ==
    /\ pc = "open"
    /\ readable \in BOOLEAN
    /\ text \in texts
    /\ contexts = <<>>
    /\ rotationEntries = <<>>
    /\ state = InitState
    /\ envCount = 0
    /\ secretsCount = 0
    /\ lineNo = 0
    /\ summary = NoSummary
    /\ history = <<>>
    /\ LiteIdle

\* readFileSync, the marker test and the initialisation of the locals
Open ==
    /\ pc = "open"
    /\ pc' = IF readable /\ MarkerTest(text) THEN "scan" ELSE "done"
    /\ summary' = NoSummary
    /\ UNCHANGED <<readable, text, contexts, rotationEntries, state, envCount,
                   secretsCount, lineNo, history>>
    /\ UNCHANGED liteVars

\* one iteration of for (const rawLine of lines)
ScanLine(rawLine) ==
    /\ pc = "scan"
    /\ LET q == ProcessLine([state |-> state, contexts |-> contexts,
                             rotationEntries |-> rotationEntries,
                             envCount |-> envCount, secretsCount |-> secretsCount],
                            rawLine)
       IN  /\ state' = q.state
           /\ contexts' = q.contexts
           /\ rotationEntries' = q.rotationEntries
           /\ envCount' = q.envCount
           /\ secretsCount' = q.secretsCount
    /\ lineNo' = lineNo + 1
    /\ UNCHANGED <<pc, readable, text, summary>>
    /\ UNCHANGED liteVars

\* the end of the loop: staleSecrets and the returned record
Finish ==
    /\ pc = "scan"
    /\ pc' = "done"
    /\ summary' = MakeSummary(state, rotationEntries, envCount, secretsCount)
    /\ UNCHANGED <<readable, text, contexts, rotationEntries, state, envCount,
                   secretsCount, lineNo, history>>
    /\ UNCHANGED liteVars

ScanAny ==
    /\ lineNo < MaxLines
    /\ \E rawLine \in Lines : ScanLine(rawLine)
    /\ UNCHANGED history

Init == InitParser({<<"M">>, <<"w", "M">>})
Next == Open \/ ScanAny \/ Finish
Spec == Init /\ [][Next]_vars

\* the admission of a file, over every text of the model; an admitted file holds
\* no line that changes the parser's state
Texts == UNION {[1..n -> TextSymbols] : n \in 0..MaxText}
InitAdmit == InitParser(Texts)
NextAdmit == Open \/ Finish
SpecAdmit == InitAdmit /\ [][NextAdmit]_vars

---------------------------------------------------------------------------
(* The specification that records the lines it consumed.  Its files hold   *)
(* the lines of a rotations block and of a pack block, at fixed depths.    *)

At(n, body) == Spaces(n) \o body

HistLines ==
    {At(0, <<"rotations", ":">>),
     At(1, <<"-", " ", "last_rotated_days", ":", " ", "2">>),
     At(1, <<"-", " ", "max_days", ":">>),
     At(1, <<"-", " ", "max_days", ":", " ", "2">>),
     At(1, <<"-", " ", "x">>),
     At(1, <<"max_days", ":", " ", "1">>),
     At(2, <<"last_rotated_days", ":", " ", "2">>),
     At(2, <<"last_rotated_days", ":", " ", "x">>),
     At(2, <<"max_days", ":", " ", "1">>),
     At(2, <<"max_days", ":", " ", "2">>),
     At(2, <<"meta", ":">>),
     At(3, <<"max_days", ":", " ", "1">>)}

ScanRecorded ==
    /\ Len(history) < MaxHistory
    /\ \E rawLine \in HistLines :
          /\ ScanLine(rawLine)
          /\ history' = Append(history, rawLine)

InitHist == InitParser({<<"M">>})
NextHist == Open \/ ScanRecorded \/ Finish
SpecHist == InitHist /\ [][NextHist]_vars

---------------------------------------------------------------------------
(* collectRegistryPacks and summarizeConfigGuardLite as a state machine    *)

\* collectRegistryPacks up to its loop: existsSync and the initial stack
WalkStart ==
    /\ lpc = "start"
    /\ IF ExistsSync(fs, RegistryRoot)
       THEN stack' = <<RegistryRoot>> /\ lpc' = "walk"
       ELSE stack' = <<>> /\ lpc' = "parseRegistry"
    /\ files' = <<>>
    /\ UNCHANGED <<fs, cursor, summaries, seen, qualifying, scanOrder, report>>
    /\ UNCHANGED parserVars

\* one iteration of while (stack.length)
WalkStep ==
    /\ lpc = "walk"
    /\ stack # <<>>
    /\ LET dir == stack[Len(stack)]
           popped == SubSeq(stack, 1, Len(stack) - 1)
       IN  IF ReaddirSucceeds(fs, dir)
           THEN \E entries \in Listings(fs, dir) :
                   LET w == VisitEntries(fs, entries, [stack |-> popped, files |-> files])
                   IN  /\ stack' = w.stack
                       /\ files' = w.files
                       /\ lpc' = IF w.stack = <<>> THEN "parseRegistry" ELSE "walk"
           ELSE /\ stack' = popped
                /\ files' = files
                /\ lpc' = IF popped = <<>> THEN "parseRegistry" ELSE "walk"
    /\ UNCHANGED <<fs, cursor, summaries, seen, qualifying, scanOrder, report>>
    /\ UNCHANGED parserVars

\* the body of both for-loops of summarizeConfigGuardLite, on the outcome of
\* parseConfigGuardFile(file): nothing, or a summary
Keep(outcome) ==
    IF outcome.some /\ KeyOf(outcome.value) \notin seen
    THEN /\ seen' = seen \cup {KeyOf(outcome.value)}
         /\ summaries' = Append(summaries, outcome.value)
    ELSE UNCHANGED <<seen, summaries>>

Outcomes(file) ==
    {[some |-> FALSE, value |-> PackSummary(file, <<>>, <<>>, 0, 0)]}
    \cup {[some |-> TRUE, value |-> s] : s \in SummariesOf(file)}

\* one iteration of a for-loop over candidate files
ParseFile(phase) ==
    /\ lpc = phase
    /\ cursor < Len(files)
    /\ \E outcome \in Outcomes(files[cursor + 1]) :
          /\ Keep(outcome)
          /\ qualifying' = IF outcome.some THEN Append(qualifying, outcome.value)
                           ELSE qualifying
    /\ cursor' = cursor + 1
    /\ UNCHANGED <<fs, lpc, stack, files, scanOrder, report>>
    /\ UNCHANGED parserVars

ParseRegistryFile == ParseFile("parseRegistry")

ParseLocalFile == ParseFile("parseLocal")

\* collectLocalConfigGuardPacks
ListLocal ==
    /\ lpc = "parseRegistry"
    /\ cursor = Len(files)
    /\ IF ~ExistsSync(fs, LocalRoot)
       THEN files' = <<>> /\ lpc' = "parseLocal"
       ELSE IF ReaddirSucceeds(fs, LocalRoot)
       THEN /\ \E entries \in Listings(fs, LocalRoot) :
                  files' = SelectSeq(entries, LAMBDA p : IsLocalCandidate(fs, p))
            /\ lpc' = "parseLocal"
       ELSE files' = <<>> /\ lpc' = "threw"
    /\ cursor' = 0
    /\ UNCHANGED <<fs, stack, summaries, seen, qualifying, scanOrder, report>>
    /\ UNCHANGED parserVars

\* the end of summarizeConfigGuardLite: the sort, the totals, the report
Return ==
    /\ lpc = "parseLocal"
    /\ cursor = Len(files)
    /\ lpc' = "returned"
    /\ scanOrder' = summaries
    /\ IF summaries = <<>>
       THEN report' = NoReport /\ summaries' = summaries
       ELSE /\ summaries' = SortBySeverity(summaries)
            /\ report' = MakeReport(SortBySeverity(summaries))
    /\ UNCHANGED <<fs, stack, files, cursor, seen, qualifying>>
    /\ UNCHANGED parserVars

InitScan(systems) ==
    /\ ParserIdle
    /\ fs \in systems
    /\ lpc = "start"
    /\ stack = <<>>
    /\ files = <<>>
    /\ cursor = 0
    /\ summaries = <<>>
    /\ seen = {}
    /\ qualifying = <<>>
    /\ scanOrder = <<>>
    /\ report = NoReport

\* collectRegistryPacks alone, over every registry tree of the model
WalkSystems == {f @@ [p \in LocalPaths |-> "absent"] : f \in RegistryTrees}
InitWalk == InitScan(WalkSystems)
NextWalk == WalkStart \/ WalkStep
SpecWalk == InitWalk /\ [][NextWalk]_vars /\ WF_vars(NextWalk)

\* summarizeConfigGuardLite, over the trees with at most two registry candidates
\* (pack.yaml at the root and one level down) and one local candidate
LiteRegistryTrees ==
    {f \in RegistryTrees :
        /\ \A p \in RegistryPaths :
              (Len(p) > 3 \/ (Len(p) = 3 /\ NameOf(p) = SubDir)
               \/ (Len(p) > 1 /\ p[2] \in {<<"x", ".yaml">>, <<"e", "">>}))
                  => f[p] = "absent"
        /\ \A p \in RegistryPaths : Len(p) > 1 => f[p] \in {"absent", "file", "dir"}
        /\ \A p \in RegistryPaths : (Len(p) > 1 /\ f[p] # "absent") => f[ParentOf(p)] = "dir"}
LiteLocalTrees ==
    {f \in LocalTrees :
        /\ f[LocalRoot \o <<<<"q", ".yaml">>>>] = "absent"
        /\ \A p \in LocalPaths : (Len(p) > 1 /\ f[p] # "absent") => f[ParentOf(p)] = "dir"}
LiteSystems == {f @@ g : f \in LiteRegistryTrees, g \in LiteLocalTrees}
InitLite == InitScan(LiteSystems)
NextLite ==
    WalkStart \/ WalkStep \/ ParseRegistryFile \/ ListLocal \/ ParseLocalFile \/ Return
SpecLite == InitLite /\ [][NextLite]_vars

---------------------------------------------------------------------------
(* Properties of the scan of one file *)

IdentityFields == {"packId", "packVersion", "namespace", "environment"}

\* C1: the summary of an admitted file has envCount >= missingEnv >= 0 and
\* secretsCount >= staleSecrets >= 0.
C1_CountsBounded ==
    (pc = "done" /\ summary.some) =>
        /\ summary.envCount >= summary.missingEnv
        /\ summary.missingEnv >= 0
        /\ summary.secretsCount >= summary.staleSecrets
        /\ summary.staleSecrets >= 0

C10_StackStrictlyIncreasing ==
    /\ \A i \in 1..(Len(contexts) - 1) : contexts[i].indent < contexts[i + 1].indent
    /\ \A i \in 1..Len(contexts) :
          /\ contexts[i].type = "env" =>
                /\ i > 1
                /\ contexts[i - 1].key = <<"required_env">>
                /\ contexts[i].key = <<"required_env", "-item">>
          /\ contexts[i].type = "rotation" =>
                /\ i > 1
                /\ contexts[i - 1].key = <<"rotations">>
                /\ contexts[i].key = <<"rotations", "-item">>

\* a second sibling item has replaced the first on the stack
C10_Witness ==
    /\ Len(contexts) = 2
    /\ contexts[2].type = "env"
    /\ envCount = 2

---------------------------------------------------------------------------
(* The recorded lines read back: which line opened which frame, and which  *)
(* frame was on top when a key: value line was read.                       *)

HIndent(i) == LeadingSpaces(history[i])
HBody(i) == Trim(history[i])
HSignificant(i) == HBody(i) # <<>> /\ ~StartsWith(HBody(i), <<"#">>)
HIsItem(i) == HSignificant(i) /\ StartsWith(HBody(i), <<"-", " ">>)
HIsMapKey(i) == HSignificant(i) /\ EndsWith(HBody(i), <<":">>) /\ ~HIsItem(i)
HIsPlain(i) ==
    HSignificant(i) /\ ~HIsItem(i) /\ ~HIsMapKey(i) /\ IndexOf(HBody(i), ":") # 0
HOpens(i) == HIsItem(i) \/ HIsMapKey(i)

\* the text in which line i carries its key: value pair
HPairText(i) == IF HIsItem(i) THEN Trim(SubSeq(HBody(i), 3, Len(HBody(i)))) ELSE HBody(i)
HHasPair(i) == (HIsItem(i) \/ HIsPlain(i)) /\ IndexOf(HPairText(i), ":") # 0
HKey(i) == Trim(SubSeq(HPairText(i), 1, IndexOf(HPairText(i), ":") - 1))
HValue(i) ==
    Trim(SubSeq(HPairText(i), IndexOf(HPairText(i), ":") + 1, Len(HPairText(i))))

\* the frame opened by line i is still on the stack when line j is classified
HStillOpen(i, j) ==
    \A k \in (i + 1)..j : HSignificant(k) => HIndent(k) > HIndent(i)

\* ... and is the top of the stack then
HOnTop(i, j) ==
    /\ HOpens(i)
    /\ i < j
    /\ HStillOpen(i, j)
    /\ \A k \in (i + 1)..(j - 1) : HOpens(k) => ~HStillOpen(k, j)

\* line i opens a list item directly under a frame named rotations
HRotationItem(i) ==
    /\ HIsItem(i)
    /\ \E k \in 1..(i - 1) :
          HIsMapKey(k) /\ HBody(k) = <<"rotations", ":">> /\ HOnTop(k, i)

\* the lines that set field (a key) of the item opened by line i
HWrites(i, field) ==
    {j \in i..Len(history) :
        /\ HHasPair(j)
        /\ HKey(j) = field
        /\ \/ j = i
           \/ HIsPlain(j) /\ HOnTop(i, j)}

HLast(S) == CHOOSE j \in S : \A k \in S : k <= j

HStaleItem(i) ==
    LET wl == HWrites(i, <<"last_rotated_days">>)
        wm == HWrites(i, <<"max_days">>)
    IN  /\ HRotationItem(i)
        /\ wl # {}
        /\ wm # {}
        /\ IsFinite(NumberOf(HValue(HLast(wl))))
        /\ IsFinite(NumberOf(HValue(HLast(wm))))
        /\ NumberOf(HValue(HLast(wl))).n > NumberOf(HValue(HLast(wm))).n

IsNumeral(value) == Len(value) = 1 /\ value[1] \in DOMAIN Digits

\* C6: a last_rotated_days or max_days value that is no parsable number (the empty
\* value of "- max_days:" included) leaves that field of the rotation entry unset,
\* and an entry with an unset field is never counted stale.
C6_UnparsableStaysUnset ==
    /\ (pc = "scan" /\ history # <<>> /\ contexts # <<>>) =>
          LET j == Len(history)
              top == contexts[Len(contexts)]
          IN  (/\ HHasPair(j)
               /\ ~IsNumeral(HValue(j))
               /\ top.rotation.kind = "ref") =>
                  /\ HKey(j) = <<"last_rotated_days">> =>
                        ~IsFinite(rotationEntries[top.rotation.idx].last)
                  /\ HKey(j) = <<"max_days">> =>
                        ~IsFinite(rotationEntries[top.rotation.idx].max)
    /\ (pc = "done" /\ summary.some) =>
          summary.staleSecrets <=
              Cardinality({i \in 1..Len(rotationEntries) :
                              /\ IsFinite(rotationEntries[i].last)
                              /\ IsFinite(rotationEntries[i].max)})

\* C7: staleSecrets is the number of list items opened directly under a frame
\* named rotations whose last_rotated_days and max_days were both set, by the
\* item line or by key: value lines read while the item's frame was on top of the
\* stack, to numbers with last_rotated_days > max_days.
C7_StaleCount ==
    (pc = "done" /\ summary.some) =>
        summary.staleSecrets = Cardinality({i \in 1..Len(history) : HStaleItem(i)})

\* two rotation items: the lines after the second set its fields, and only it is stale
C7_Witness ==
    /\ pc = "done"
    /\ summary.staleSecrets = 1
    /\ Len(rotationEntries) = 2
    /\ rotationEntries[1] = [last |-> Null, max |-> Null]
    /\ Len(history) = 4
    /\ HIsPlain(4)

---------------------------------------------------------------------------
(* Properties of the admission test *)

\* the literal occurs somewhere in the text
ContainsMarker(t) == "M" \in {t[i] : i \in 1..Len(t)}

\* the literal occurs with no word character right before or right after it
HasWholeWordMarker(t) ==
    \E i \in 1..Len(t) :
        /\ t[i] = "M"
        /\ \A j \in {i - 1, i + 1} \cap (1..Len(t)) : t[j] = "s"

\* C2 as stated: a readable file yields a summary if and only if its text holds
\* the literal config_guard_spec anywhere, also inside a longer identifier.
C2_SubstringAdmits ==
    (pc = "done" /\ readable) => (summary.some <=> ContainsMarker(text))

\* C2 amended: a file yields a summary if and only if it is readable and its text
\* holds config_guard_spec as a whole word; without the literal it yields nothing.
C2_WholeWordAdmits ==
    pc = "done" =>
        /\ summary.some <=> (readable /\ HasWholeWordMarker(text))
        /\ ~ContainsMarker(text) => ~summary.some

\* admitted by its second occurrence, the first being part of a longer identifier
C2_Witness ==
    /\ pc = "done"
    /\ summary.some
    /\ text = <<"w", "M", "s", "M">>

---------------------------------------------------------------------------
(* Properties of the directory scans and of the aggregate *)

Range(seq) == {seq[i] : i \in 1..Len(seq)}
NoDuplicates(seq) == \A i, j \in 1..Len(seq) : seq[i] = seq[j] => i = j

\* the regular files named pack.yaml below the root whose ancestors, the root
\* included, are all readable directories
ExpectedPacks(f) ==
    {p \in RegistryPaths :
        /\ f[p] = "file"
        /\ NameOf(p) = PackYaml
        /\ \A k \in 1..(Len(p) - 1) : f[SubSeq(p, 1, k)] = "dir"}

WalkOver == lpc = "parseRegistry"

\* C8: collectRegistryPacks terminates, and returns each regular file named
\* pack.yaml that is reachable through readable directories exactly once and no
\* other path; an absent root gives the empty sequence, an unreadable
\* subdirectory is skipped.
C8_WalkTerminatesExact ==
    /\ <>WalkOver
    /\ [](WalkOver => (NoDuplicates(files) /\ Range(files) = ExpectedPacks(fs)))

\* three files found at three depths, beside an unreadable directory that holds a
\* fourth
C8_Witness ==
    /\ WalkOver
    /\ Len(files) = 3
    /\ fs[RegistryRoot \o <<<<"e", "">>>>] = "udir"
    /\ fs[RegistryRoot \o <<<<"e", "">>, PackYaml>>] = "file"

\* C5: no error escapes summarizeConfigGuardLite, whatever the registry root, the
\* local root and the candidate files are.
C5_NoErrorEscapes == lpc # "threw"

SamePair(a, b) == a.id = b.id /\ a.version = b.version

\* C3: every distinct (id, version) pair among the qualifying summaries appears
\* exactly once in the report, as the first summary with that pair in scan order.
C3_DistinctPairsKept ==
    lpc = "returned" =>
        \A i \in 1..Len(qualifying) :
            LET first == CHOOSE j \in 1..i :
                            /\ SamePair(qualifying[j], qualifying[i])
                            /\ \A k \in 1..(j - 1) : ~SamePair(qualifying[k], qualifying[i])
                hits == {k \in 1..Len(report.packs) :
                            SamePair(report.packs[k], qualifying[i])}
            IN  /\ Cardinality(hits) = 1
                /\ \A k \in hits : report.packs[k] = qualifying[first]

PositionIn(seq, x) == CHOOSE i \in 1..Len(seq) : seq[i] = x

RECURSIVE SumMissing(_, _)
SumMissing(seq, n) == IF n = 0 THEN 0 ELSE seq[n].missingEnv + SumMissing(seq, n - 1)

RECURSIVE SumStale(_, _)
SumStale(seq, n) == IF n = 0 THEN 0 ELSE seq[n].staleSecrets + SumStale(seq, n - 1)

\* C4: the packs of the report are the summaries kept, by descending
\* missingEnv + staleSecrets, packs of equal severity in scan order; the totals are
\* the sums over those packs and totalPacks their number.
C4_SortedStableTotals ==
    (lpc = "returned" /\ report.some) =>
        LET P == report.packs
        IN  /\ Len(P) = Len(scanOrder)
            /\ Range(P) = Range(scanOrder)
            /\ NoDuplicates(P)
            /\ \A i, j \in 1..Len(P) :
                  i < j =>
                     /\ Severity(P[i]) >= Severity(P[j])
                     /\ Severity(P[i]) = Severity(P[j]) =>
                           PositionIn(scanOrder, P[i]) < PositionIn(scanOrder, P[j])
            /\ report.totalPacks = Len(P)
            /\ report.missingEnv = SumMissing(P, Len(P))
            /\ report.staleSecrets = SumStale(P, Len(P))

\* three packs: the second scanned is the most severe, the other two tie and keep
\* their scan order
C4_Witness ==
    /\ lpc = "returned"
    /\ Len(report.packs) = 3
    /\ report.packs[1] = scanOrder[2]
    /\ report.packs[2] = scanOrder[1]
    /\ report.packs[3] = scanOrder[3]
    /\ Severity(scanOrder[1]) = Severity(scanOrder[3])
    /\ Severity(scanOrder[1]) > 0

===========================================================================
